---------------------------- MODULE Spec2Model ----------------------------
(***************************************************************************)
(* A model of canvas_export_enrollment_b2c_final_2.py: the retrying GET    *)
(* (robust_get), the cursor paginator (CanvasClient.paged_get with         *)
(* parse_link_header), and the per-student aggregation                     *)
(* (build_summary_for_student) driven by main.                             *)
(*                                                                         *)
(* Text is modelled as a sequence of tokens.  A token is a TLA+ string     *)
(* that stands for one character of the Python string ("<", ">", ",", ";", *)
(* " ", a double quote) or for an indivisible run of characters that holds *)
(* none of the characters the parser looks for ("rel=", "next", a URL).    *)
(***************************************************************************)
EXTENDS Integers, Sequences, FiniteSets, TLC

(***************************************************************************)
(* Bounds of the model.                                                    *)
(***************************************************************************)
MaxPages == 3
MaxItems == 2
MaxHint == 40
\* pages of the student listing
MaxStuPages == 2
\* enrollment rows per student, course ids 1..MaxCourse
MaxEnr == 2
MaxCourse == 2
\* enrollment rows per student where the enrollment states vary
MaxStates == 3
\* assignments and submissions per course where the counts vary
MaxAssign == 5
MaxSubs == 3
\* observer records per page, pages per course
MaxObs == 1
MaxObsPages == 2
\* rows of the CSV file and records of the table of the upsert
MaxCsv == 2
MaxRecs == 2
\* enrollment rows of the student whose creation timestamps vary
MaxStamps == 3

(***************************************************************************)
(* Program constants.                                                      *)
(***************************************************************************)
MaxRetries == 5
InitialDelay == 1
BackoffCap == 30
RETRY_STATUS == {429, 500, 502, 503, 504}

Min(a, b) == IF a <= b THEN a ELSE b
Max(a, b) == IF a >= b THEN a ELSE b

(***************************************************************************)
(* Token-sequence versions of the str methods the program uses.            *)
(***************************************************************************)
RECURSIVE LStrip(_, _)
LStrip(s, chars) ==
    IF s # <<>> /\ Head(s) \in chars THEN LStrip(Tail(s), chars) ELSE s

RECURSIVE RStrip(_, _)
RStrip(s, chars) ==
    IF s # <<>> /\ s[Len(s)] \in chars
    THEN RStrip(SubSeq(s, 1, Len(s) - 1), chars)
    ELSE s

\* str.strip(): leading and trailing whitespace removed
Strip(s) == RStrip(LStrip(s, {" "}), {" "})

\* str.strip('"')
StripQuotes(s) == RStrip(LStrip(s, {"\""}), {"\""})

\* str.split(sep): always at least one piece
RECURSIVE SplitAcc(_, _, _)
SplitAcc(s, sep, cur) ==
    IF s = <<>> THEN <<cur>>
    ELSE IF Head(s) = sep THEN <<cur>> \o SplitAcc(Tail(s), sep, <<>>)
    ELSE SplitAcc(Tail(s), sep, Append(cur, Head(s)))

Split(s, sep) == SplitAcc(s, sep, <<>>)

StartsWith(s, tok) == s # <<>> /\ Head(s) = tok
EndsWith(s, tok) == s # <<>> /\ s[Len(s)] = tok

(***************************************************************************)
(* parse_link_header: the dict rel -> url of a Link header.  The dict is a *)
(* function whose domain is the set of rels found; a later part with the   *)
(* same rel overwrites an earlier one.                                     *)
(***************************************************************************)
EmptyDict == [k \in {} |-> <<>>]

DictSet(d, k, v) == [x \in (DOMAIN d) \cup {k} |-> IF x = k THEN v ELSE d[x]]

\* rel of the segments after the url: the last "rel=" segment wins; <<>> is None
RECURSIVE RelOf(_, _)
RelOf(segs, rel) ==
    IF segs = <<>> THEN rel
    ELSE LET seg == Strip(Head(segs))
         IN  IF StartsWith(seg, "rel=")
             THEN RelOf(Tail(segs), StripQuotes(Strip(Tail(seg))))
             ELSE RelOf(Tail(segs), rel)

\* a loop body that also takes a url written without angle brackets
LinkPartLenient(links, part) ==
    LET section  == Split(Strip(part), ";")
        url_part == Strip(section[1])
        url      == IF StartsWith(url_part, "<") /\ EndsWith(url_part, ">")
                    THEN SubSeq(url_part, 2, Len(url_part) - 1)
                    ELSE url_part
        rel      == RelOf(Tail(section), <<>>)
    IN  IF Len(section) < 2 THEN links
        ELSE IF rel # <<>> /\ url # <<>> THEN DictSet(links, rel, url)
        ELSE links

\* one iteration of the loop over parts
LinkPart(links, part) ==
    LET section  == Split(Strip(part), ";")
        url_part == Strip(section[1])
        url      == SubSeq(url_part, 2, Len(url_part) - 1)
        rel      == RelOf(Tail(section), <<>>)
    IN  IF Len(section) < 2 THEN links
        ELSE IF ~(StartsWith(url_part, "<") /\ EndsWith(url_part, ">")) THEN links
        ELSE IF rel # <<>> /\ url # <<>> THEN DictSet(links, rel, url)
        ELSE links

RECURSIVE LinkParts(_, _)
LinkParts(parts, links) ==
    IF parts = <<>> THEN links
    ELSE LinkParts(Tail(parts), LinkPart(links, Head(parts)))

parse_link_header(link_header) ==
    IF link_header = <<>> THEN EmptyDict
    ELSE LinkParts(Split(link_header, ","), EmptyDict)

NextUrlNever(links) == <<>>

\* links.get("next"): <<>> stands for None
NextUrl(links) == IF <<"next">> \in DOMAIN links THEN links[<<"next">>] ELSE <<>>

(***************************************************************************)
(* The upstream server.  Page i of a listing lives at the URL UrlName[i];  *)
(* its body is a JSON array of items or a single JSON object, and its Link *)
(* header names the next page when there is one.                           *)
(***************************************************************************)
UrlName == <<"p1", "p2", "p3", "p4", "p5", "p6", "p7", "p8", "p9">>

UrlOf(i) == <<UrlName[i]>>

PageOfUrl(url) ==
    IF \E i \in 1..Len(UrlName) : url = UrlOf(i)
    THEN CHOOSE i \in 1..Len(UrlName) : url = UrlOf(i)
    ELSE 0

\* <url>; rel="name"
LinkSeg(i, rel) == <<"<", UrlName[i], ">", ";", " ", "rel=", "\"", rel, "\"">>

\* Link headers from which no <url>; rel="next" segment can be read: no
\* header, a url without angle brackets, a url without parameters, an empty
\* url, another rel, and text that is no link at all
MalformedStyles == {"absent", "noangle", "norel", "nourl", "otherrel", "text"}

MalformedLink(style, i) ==
    CASE style = "absent"   -> <<>>
      [] style = "noangle"  -> <<UrlName[i], ";", " ", "rel=", "\"", "next", "\"">>
      [] style = "norel"    -> <<"<", UrlName[i], ">">>
      [] style = "nourl"    -> <<"<", ">", ";", " ", "rel=", "\"", "next", "\"">>
      [] style = "otherrel" -> LinkSeg(i, "prev") \o <<",">> \o LinkSeg(i, "last")
      [] style = "text"     -> <<"next", ",", " ", ";", ",", "rel=", "next">>

\* the Link header the server sends with page i of n; a "cycle" server names
\* its first page as the one after its last
ServerLink(style, i, n) ==
    IF style = "canvas"
    THEN LinkSeg(i, "current") \o <<",">>
         \o (IF i < n THEN LinkSeg(i + 1, "next") \o <<",">> ELSE <<>>)
         \o LinkSeg(1, "first") \o <<",">> \o LinkSeg(n, "last")
    ELSE IF style = "cycle" THEN LinkSeg(IF i < n THEN i + 1 ELSE 1, "next")
    ELSE IF style \in MalformedStyles
    THEN (IF i < n THEN MalformedLink(style, i + 1) ELSE <<>>)
    ELSE IF i < n THEN LinkSeg(i + 1, "next") ELSE <<>>

\* JSON body of page i: an array of k items <<i, 1>> .. <<i, k>>, told apart
\* by page and position, or the single object <<i, 0>>
ListBody(i, k) == [isList |-> TRUE, json |-> [j \in 1..k |-> <<i, j>>]]
ObjectBody(i) == [isList |-> FALSE, json |-> <<i, 0>>]

Bodies(i) == {ListBody(i, k) : k \in 0..MaxItems} \cup {ObjectBody(i)}

\* Retry-After header values: absent, empty, not a number, or a number
Hints ==
    {[kind |-> "absent", val |-> 0], [kind |-> "empty", val |-> 0],
     [kind |-> "text", val |-> 0]}
    \cup {[kind |-> "number", val |-> v] : v \in {0, 3, MaxHint}}

NoHint == [kind |-> "absent", val |-> 0]

\* statuses the server answers with: a success, a 3xx without a Location,
\* a permanent failure and two transient ones
Statuses == {200, 304, 404} \cup {429, 503}

\* the statuses of the paginator's specification
PageStatuses == {200, 304, 404, 503}


(***************************************************************************)
(* Pure helpers of the aggregation.  A missing JSON field (None) is the    *)
(* empty token sequence where the program treats None and "" alike.        *)
(***************************************************************************)
\* drop the empty pieces of a split: str.split() without separator
RECURSIVE NonEmptyPieces(_)
NonEmptyPieces(pieces) ==
    IF pieces = <<>> THEN <<>>
    ELSE IF Head(pieces) = <<>> THEN NonEmptyPieces(Tail(pieces))
    ELSE <<Head(pieces)>> \o NonEmptyPieces(Tail(pieces))

SplitWords(s) == NonEmptyPieces(Split(s, " "))

\* " ".join(parts)
RECURSIVE JoinWith(_, _)
JoinWith(parts, sep) ==
    IF parts = <<>> THEN <<>>
    ELSE IF Len(parts) = 1 THEN Head(parts)
    ELSE Head(parts) \o <<sep>> \o JoinWith(Tail(parts), sep)

\* position of the first sep in s, 0 when there is none
RECURSIVE IndexOf(_, _, _)
IndexOf(s, sep, i) ==
    IF i > Len(s) THEN 0 ELSE IF s[i] = sep THEN i ELSE IndexOf(s, sep, i + 1)

\* split_first_last(name, sortable_name) -> <<first, last>>
split_first_last(name, sortable_name) ==
    LET sname == Strip(sortable_name)
        n     == Strip(name)
        c     == IndexOf(sname, ",", 1)
        parts == SplitWords(n)
    IN  IF sname # <<>> /\ c > 0
        THEN <<Strip(SubSeq(sname, c + 1, Len(sname))), Strip(SubSeq(sname, 1, c - 1))>>
        ELSE IF n # <<>>
        THEN IF Len(parts) = 1 THEN <<parts[1], <<>> >>
             ELSE <<JoinWith(SubSeq(parts, 1, Len(parts) - 1), " "), parts[Len(parts)]>>
        ELSE << <<>>, <<>> >>

\* pick_email(user)
pick_email(u) == Strip(IF u.email # <<>> THEN u.email ELSE u.login_id)

\* obs.get("user") or {}: every field of the empty dict is None
NoUser == [name |-> <<>>, sortable_name |-> <<>>, email |-> <<>>, login_id |-> <<>>]

\* iso_parse: a text that datetime.fromisoformat accepts gives a datetime, its
\* instant t >= 1 and whether it carries a UTC offset; anything else gives
\* None, which is NoTime
NoTime == [t |-> 0, aware |-> FALSE]
iso_parse(dt) == IF dt.kind = "iso" THEN [t |-> dt.t, aware |-> dt.aware] ELSE NoTime

\* line 196: "created_at < earliest_enrollment" is evaluated, and raises
\* TypeError, when one datetime carries an offset and the other does not
CompareRaises(cur, created_at) ==
    created_at # NoTime /\ cur # NoTime /\ created_at.aware # cur.aware

\* line 196
Earliest(cur, created_at) ==
    IF created_at # NoTime /\ (cur = NoTime \/ created_at.t < cur.t) THEN created_at ELSE cur

\* the order of Python's str comparison on the enrollment states
StateOrder ==
    <<"", "active", "completed", "deleted", "inactive", "invited", "pending">>

Rank(st) == CHOOSE i \in 1..Len(StateOrder) : StateOrder[i] = st

\* sorted(set(...)) of a set of states
RECURSIVE SortedStates(_)
SortedStates(S) ==
    IF S = {} THEN <<>>
    ELSE LET m == CHOOSE x \in S : \A y \in S : Rank(x) <= Rank(y)
         IN  <<m>> \o SortedStates(S \ {m})

Range(f) == {f[i] : i \in DOMAIN f}

OverallStatusAnyDone(sts) ==
    IF sts = <<>> THEN <<>>
    ELSE IF \E i \in DOMAIN sts : sts[i] = "active" THEN <<"active">>
    ELSE IF \E i \in DOMAIN sts : sts[i] \in {"completed", "inactive", "deleted"}
    THEN <<"completed">>
    ELSE JoinWith([i \in 1..Cardinality(Range(sts) \ {""}) |->
                     <<SortedStates(Range(sts) \ {""})[i]>>], ",")

\* lines 222-229: the text of the enrollment status
OverallStatus(sts) ==
    IF sts = <<>> THEN <<>>
    ELSE IF \E i \in DOMAIN sts : sts[i] = "active" THEN <<"active">>
    ELSE IF \A i \in DOMAIN sts : sts[i] \in {"completed", "inactive", "deleted"}
    THEN <<"completed">>
    ELSE JoinWith([i \in 1..Cardinality(Range(sts) \ {""}) |->
                     <<SortedStates(Range(sts) \ {""})[i]>>], ",")

\* round(100.0 * c / t, 2) in hundredths of a percent: the nearest integer to
\* 10000 * c / t, a tie going to the even one.  A tie needs t to be a multiple
\* of 32; below that the float arithmetic of the program gives this value.
RoundHundredths(c, t) ==
    LET q == (10000 * c) \div t
        r == (10000 * c) % t
    IN  IF 2 * r > t THEN q + 1
        ELSE IF 2 * r < t THEN q
        ELSE IF q % 2 = 0 THEN q ELSE q + 1

NoProgress == [empty |-> TRUE, hundredths |-> 0]

ProgressZeroWhenNone(include, total, completed) ==
    IF include /\ total > 0
    THEN [empty |-> FALSE, hundredths |-> RoundHundredths(completed, total)]
    ELSE [empty |-> FALSE, hundredths |-> 0]

\* lines 248-250
Progress(include, total, completed) ==
    IF include /\ total > 0
    THEN [empty |-> FALSE, hundredths |-> RoundHundredths(completed, total)]
    ELSE NoProgress

\* line 214
IsComplete(sub) == sub.submitted_at \/ sub.workflow_state \in {"submitted", "graded"}

RECURSIVE CountComplete(_)
CountComplete(subs) ==
    IF subs = <<>> THEN 0
    ELSE (IF IsComplete(Head(subs)) THEN 1 ELSE 0) + CountComplete(Tail(subs))

TotalCoursesByName(ids, names) == Len(names)

\* line 221
TotalCourses(ids, names) == Cardinality(ids)

\* where an exception raised by a fetch of build_summary_for_student goes:
\* line 186 stands in no try block; lines 204, 218 and 245 catch and log
HandlerCourseUncaught(kind) ==
    IF kind \in {"enrollments", "course"} THEN "propagate" ELSE "log"

HandlerObserverUncaught(kind) ==
    IF kind \in {"enrollments", "observer"} THEN "propagate" ELSE "log"

HandlerAllCaught(kind) == "log"

Handler(kind) == IF kind = "enrollments" THEN "propagate" ELSE "log"

\* filters of which one match is enough
PassesFilterEither(uid, sis, canvas_ids, sis_ids) ==
    \/ canvas_ids = {} /\ sis_ids = {}
    \/ canvas_ids # {} /\ uid \in canvas_ids
    \/ sis_ids # {} /\ sis # <<>> /\ sis \in sis_ids

\* lines 331-334: the filters of main; None is the empty set (parse_id_set
\* never returns an empty set)
PassesFilter(uid, sis, canvas_ids, sis_ids) ==
    /\ canvas_ids # {} => uid \in canvas_ids
    /\ sis_ids # {} => sis # <<>> /\ sis \in sis_ids

(***************************************************************************)
(* State.                                                                  *)
(*   srvPages, srvStyle  the listing the server holds and how it writes    *)
(*                       its Link headers                                  *)
(*   rg*                 one call of robust_get: its position, arguments   *)
(*                       and locals, the statuses it has received, the     *)
(*                       number of waits (time.sleep) and warning lines it *)
(*                       has made and the length of its last wait          *)
(*   pg*                 one call of paged_get: its position and locals,   *)
(*                       the items of the current page not yet yielded,    *)
(*                       and everything yielded so far                     *)
(*   lastReq             the last request put on the wire                  *)
(*   env                 the data the upstream server may answer with      *)
(*   include_*           the command line of main                          *)
(*   mPc .. written      main: its position, the part of the student       *)
(*                       listing it holds, its counters, its rows and the  *)
(*                       rows of the CSV file once written                 *)
(*   passed              history: the students that passed the filters,    *)
(*                       in the order the listing returned them            *)
(*   upPc .. total_new   upsert_csv_to_airtable.main: its position, the    *)
(*                       rows of the CSV file, the records of the table,   *)
(*                       the soft-delete switch, its locals, and the       *)
(*                       records it has sent (sent)                        *)
(*   bsPc .. summary     build_summary_for_student: its position, locals   *)
(*                       and return value                                  *)
(*   abortCause          the fetch whose exception ended the run           *)
(*   thisCourse          history of the enrollment row in hand             *)
(*   seenStamps          history: what iso_parse gave for the created_at   *)
(*                       of every enrollment row read                      *)
(*   seenCids, failed,   history of the current student: the course_id of  *)
(*   obsSeen             the enrollment rows read, the fetches that        *)
(*                       raised, and the observer records read             *)
(***************************************************************************)
VARIABLES srvPages, srvStyle,
          rgPc, rgUrl, rgParams, attempt, delay, resp, statLog, waits, warns,
          lastWait,
          pgPc, pgUrl, params_local, pgData, pgLink, yielded, lastReq,
          env, include_canvas_ids, include_sis_ids, include_assignments,
          mPc, stuBuf, stuMore, stuFetched, total_students, matched_students,
          rows, written, passed, abortCause,
          bsPc, user, enrLeft, cid, course_ids, statuses, earliest_enrollment,
          course_names, total_assignments, completed_assignments,
          total_courses, overall_status, observer_linked, parent_first,
          parent_last, parent_email, scanLeft, scanned, obsCid, obsPages,
          summary, seenCids, failed, obsSeen, thisCourse, seenStamps,
          upPc, csv_rows, table, do_softdel, existing, offset, rowNo, updates,
          creates, current_keys, sent, total_upd, total_new

rgVars ==
    <<rgPc, rgUrl, rgParams, attempt, delay, resp, statLog, waits, warns, lastWait>>
pgVars == <<pgPc, pgUrl, params_local, pgData, pgLink, yielded>>
srvVars == <<srvPages, srvStyle>>
cliVars == <<env, include_canvas_ids, include_sis_ids, include_assignments>>
mainVars ==
    <<mPc, stuBuf, stuMore, stuFetched, total_students, matched_students, rows,
      written, passed, abortCause>>
enrVars ==
    <<enrLeft, cid, course_ids, statuses, earliest_enrollment, course_names,
      total_assignments, completed_assignments, seenCids, thisCourse,
      seenStamps>>
obsVars ==
    <<observer_linked, parent_first, parent_last, parent_email, scanLeft,
      scanned, obsCid, obsPages, obsSeen>>
bsVars ==
    <<bsPc, user, enrVars, total_courses, overall_status, obsVars, summary, failed>>
upVars ==
    <<upPc, csv_rows, table, do_softdel, existing, offset, rowNo, updates,
      creates, current_keys, sent, total_upd, total_new>>
aggVars == <<cliVars, mainVars, bsVars, upVars>>
pagingVars == <<srvVars, rgVars, pgVars, lastReq>>
vars == <<pagingVars, aggVars>>

NoResp == [status |-> 0, hint |-> NoHint]
\* a paginator that keeps the caller's params after the first response
ParamsKept == "params"

NoParams == "None"
CallerParams == "params"

NoUserRow ==
    [id |-> 0, sis_user_id |-> <<>>, name |-> <<>>, sortable_name |-> <<>>,
     email |-> <<>>, login_id |-> <<>>]

NoSummary == [made |-> FALSE]

NoEnv == [profile |-> "none"]

\* lines 171-184 and 232-233: the locals of build_summary_for_student before
\* the first fetch, and after the call has ended
\* history of the enrollment row in hand: the two metrics when its processing
\* began and the fetches of its course that raised
NoCourseLog == [before |-> <<0, 0>>, failed |-> {}]

FetchLogged(log, kind, fail) ==
    IF fail THEN [log EXCEPT !.failed = @ \cup {kind}] ELSE log

BsLocalsFresh ==
    /\ enrLeft' = 0
    /\ cid' = 0
    /\ course_ids' = {}
    /\ statuses' = <<>>
    /\ earliest_enrollment' = NoTime
    /\ course_names' = <<>>
    /\ total_assignments' = 0
    /\ completed_assignments' = 0
    /\ seenCids' = {}
    /\ thisCourse' = NoCourseLog
    /\ seenStamps' = {}
    /\ total_courses' = 0
    /\ overall_status' = <<>>
    /\ observer_linked' = "No"
    /\ parent_first' = <<>>
    /\ parent_last' = <<>>
    /\ parent_email' = <<>>
    /\ scanLeft' = {}
    /\ scanned' = 0
    /\ obsCid' = 0
    /\ obsPages' = 0
    /\ obsSeen' = {}
    /\ summary' = NoSummary
    /\ failed' = {}

\* upsert_csv_to_airtable is not running
UpIdle ==
    /\ upPc = "off"
    /\ csv_rows = <<>>
    /\ table = <<>>
    /\ do_softdel = FALSE
    /\ existing = EmptyDict
    /\ offset = 0
    /\ rowNo = 0
    /\ updates = <<>>
    /\ creates = <<>>
    /\ current_keys = {}
    /\ sent = {}
    /\ total_upd = 0
    /\ total_new = 0

\* main of the export is not running
MainIdle ==
    /\ env = NoEnv
    /\ include_canvas_ids = {}
    /\ include_sis_ids = {}
    /\ include_assignments = FALSE
    /\ mPc = "off"
    /\ stuBuf = <<>>
    /\ stuMore = FALSE
    /\ stuFetched = 0
    /\ total_students = 0
    /\ matched_students = 0
    /\ rows = <<>>
    /\ written = <<>> /\ passed = <<>>
    /\ abortCause = "none"
    /\ bsPc = "off"
    /\ user = NoUserRow
    /\ enrLeft = 0
    /\ cid = 0
    /\ course_ids = {}
    /\ statuses = <<>>
    /\ earliest_enrollment = NoTime
    /\ course_names = <<>>
    /\ total_assignments = 0
    /\ completed_assignments = 0
    /\ seenCids = {}
    /\ thisCourse = NoCourseLog
    /\ seenStamps = {}
    /\ total_courses = 0
    /\ overall_status = <<>>
    /\ observer_linked = "No"
    /\ parent_first = <<>>
    /\ parent_last = <<>>
    /\ parent_email = <<>>
    /\ scanLeft = {}
    /\ scanned = 0
    /\ obsCid = 0
    /\ obsPages = 0
    /\ obsSeen = {}
    /\ summary = NoSummary
    /\ failed = {}

AggIdle == UpIdle /\ MainIdle

\* no paginator or retrying GET is modelled step by step
PagingIdle ==
    /\ srvPages = <<>>
    /\ srvStyle = "bare"
    /\ rgPc = "idle"
    /\ rgUrl = <<>>
    /\ rgParams = NoParams
    /\ attempt = 0
    /\ delay = 0
    /\ resp = NoResp
    /\ statLog = <<>>
    /\ waits = 0
    /\ warns = 0
    /\ lastWait = 0
    /\ pgPc = "off"
    /\ pgUrl = <<>>
    /\ params_local = NoParams
    /\ pgData = <<>>
    /\ pgLink = <<>>
    /\ yielded = <<>>
    /\ lastReq = [url |-> <<>>, params |-> NoParams]

(***************************************************************************)
(* robust_get                                                              *)
(***************************************************************************)
HintReplacesDelay(d, hint) == IF hint.kind = "number" THEN hint.val ELSE d

\* lines 78-83: the hint raises the delay when it parses as a number
HintedDelay(d, hint) == IF hint.kind = "number" THEN Max(d, hint.val) ELSE d

\* line 86
NextDelay(d) == Min(d * 2, BackoffCap)

\* requests.Response.raise_for_status raises for 4xx and 5xx only
RaisesForStatus(status) == status >= 400 /\ status < 600

IsRetryStatus(status) == status \in RETRY_STATUS

InBudgetOneMore(a) == a <= MaxRetries + 1

\* line 75: range(1, max_retries + 1)
InBudget(a) == a <= MaxRetries

\* the locals of a call that has ended
RgReset ==
    /\ rgPc' = "idle"
    /\ rgUrl' = <<>>
    /\ rgParams' = NoParams
    /\ attempt' = 0
    /\ delay' = 0
    /\ resp' = NoResp
    /\ statLog' = <<>>
    /\ waits' = 0
    /\ warns' = 0
    /\ lastWait' = 0

\* entry of robust_get(session, url, headers, params)
RgCall(url, params) ==
    /\ rgPc' = "loop"
    /\ rgUrl' = url
    /\ rgParams' = params
    /\ attempt' = 1
    /\ delay' = InitialDelay
    /\ resp' = NoResp
    /\ statLog' = <<>>
    /\ waits' = 0
    /\ warns' = 0
    /\ lastWait' = 0

\* one iteration of the for loop: a request, the server's answer to it, and
\* the branch taken on its status
RgAttempt(status, hint) ==
    /\ rgPc = "loop"
    /\ InBudget(attempt)
    /\ resp' = [status |-> status, hint |-> hint]
    /\ statLog' = Append(statLog, status)
    /\ lastReq' = [url |-> rgUrl, params |-> rgParams]
    /\ IF IsRetryStatus(status)
       THEN /\ warns' = warns + 1
            /\ waits' = waits + 1
            /\ lastWait' = HintedDelay(delay, hint)
            /\ delay' = NextDelay(HintedDelay(delay, hint))
            /\ attempt' = attempt + 1
            /\ rgPc' = "loop"
       ELSE /\ rgPc' = IF RaisesForStatus(status) THEN "raised" ELSE "returned"
            /\ UNCHANGED <<warns, waits, lastWait, delay, attempt>>
    /\ UNCHANGED <<rgUrl, rgParams, srvVars, pgVars, aggVars>>

\* lines 90-91: the loop ran out of attempts
RgExhausted ==
    /\ rgPc = "loop"
    /\ ~InBudget(attempt)
    /\ rgPc' = IF RaisesForStatus(resp.status) THEN "raised" ELSE "returned"
    /\ UNCHANGED <<rgUrl, rgParams, attempt, delay, resp, statLog, waits, warns>>
    /\ UNCHANGED <<lastWait, srvVars, pgVars, lastReq, aggVars>>

(***************************************************************************)
(* CanvasClient.paged_get                                                  *)
(***************************************************************************)
\* lines 113-117: a list is yielded item by item, anything else as one item
JsonItems(body) == IF body.isList THEN body.json ELSE <<body.json>>

\* line 110: the top of the while loop calls robust_get
PgRequest ==
    /\ pgPc = "top"
    /\ RgCall(pgUrl, params_local)
    /\ pgPc' = "call"
    /\ UNCHANGED <<pgUrl, params_local, pgData, pgLink, yielded>>
    /\ UNCHANGED <<srvVars, lastReq, aggVars>>

\* lines 111-112: robust_get returned; resp.json() of a response without a
\* JSON body (a 3xx) raises
PgReceive ==
    /\ pgPc = "call"
    /\ rgPc = "returned"
    /\ params_local' = NoParams
    /\ LET p == PageOfUrl(rgUrl)
       IN  IF resp.status >= 200 /\ resp.status < 300 /\ p \in 1..Len(srvPages)
           THEN /\ pgData' = JsonItems(srvPages[p])
                /\ pgLink' = ServerLink(srvStyle, p, Len(srvPages))
                /\ pgPc' = "yield"
           ELSE /\ pgPc' = "raised"
                /\ UNCHANGED <<pgData, pgLink>>
    /\ RgReset
    /\ UNCHANGED <<pgUrl, yielded, srvVars, lastReq, aggVars>>

\* robust_get raised: the error leaves the generator
PgFail ==
    /\ pgPc = "call"
    /\ rgPc = "raised"
    /\ pgPc' = "raised"
    /\ RgReset
    /\ UNCHANGED <<pgUrl, params_local, pgData, pgLink, yielded>>
    /\ UNCHANGED <<srvVars, lastReq, aggVars>>

\* the history yielded keeps the first MaxHist items that were yielded
MaxHist == MaxPages * MaxItems

\* lines 114-117: the next item goes to the consumer
PgYield ==
    /\ pgPc = "yield"
    /\ pgData # <<>>
    /\ yielded' = IF Len(yielded) < MaxHist THEN Append(yielded, Head(pgData))
                  ELSE yielded
    /\ pgData' = Tail(pgData)
    /\ UNCHANGED <<pgPc, pgUrl, params_local, pgLink>>
    /\ UNCHANGED <<srvVars, rgVars, lastReq, aggVars>>

\* lines 118-122: follow the "next" link or stop
PgLink ==
    /\ pgPc = "yield"
    /\ pgData = <<>>
    /\ LET next_url == NextUrl(parse_link_header(pgLink))
       IN  IF next_url = <<>>
           THEN pgPc' = "done" /\ UNCHANGED pgUrl
           ELSE pgPc' = "top" /\ pgUrl' = next_url
    /\ UNCHANGED <<params_local, pgData, pgLink, yielded>>
    /\ UNCHANGED <<srvVars, rgVars, lastReq, aggVars>>

(***************************************************************************)
(* Spec: one call paged_get(UrlOf(1), params) against every server of the  *)
(* bounds; each request is answered with a success, a permanent failure or *)
(* a transient failure.                                                    *)
(***************************************************************************)
Servers ==
    UNION {[1..n -> UNION {Bodies(i) : i \in 1..n}] : n \in 1..MaxPages}

Init ==
    /\ srvPages \in {s \in Servers : \A i \in DOMAIN s : s[i] \in Bodies(i)}
    /\ srvStyle \in {"canvas", "bare"}
    /\ rgPc = "idle"
    /\ rgUrl = <<>>
    /\ rgParams = NoParams
    /\ attempt = 0
    /\ delay = 0
    /\ resp = NoResp
    /\ statLog = <<>>
    /\ waits = 0
    /\ warns = 0
    /\ lastWait = 0
    /\ pgPc = "top"
    /\ pgUrl = UrlOf(1)
    /\ params_local = CallerParams
    /\ pgData = <<>>
    /\ pgLink = <<>>
    /\ yielded = <<>>
    /\ lastReq = [url |-> <<>>, params |-> NoParams]
    /\ AggIdle

Next ==
    \/ \E status \in PageStatuses : RgAttempt(status, NoHint)
    \/ RgExhausted
    \/ PgRequest
    \/ PgReceive
    \/ PgFail
    \/ PgYield
    \/ PgLink

Spec == Init /\ [][Next]_vars

(***************************************************************************)
(* SpecLink: one call of paged_get against servers that hold one or more   *)
(* pages and announce the next page with a Link header from which no       *)
(* "next" segment can be read.                                             *)
(***************************************************************************)
InitLink ==
    /\ srvPages \in {s \in Servers : \A i \in DOMAIN s : s[i] \in Bodies(i)}
    /\ srvStyle \in MalformedStyles
    /\ rgPc = "idle"
    /\ rgUrl = <<>>
    /\ rgParams = NoParams
    /\ attempt = 0
    /\ delay = 0
    /\ resp = NoResp
    /\ statLog = <<>>
    /\ waits = 0
    /\ warns = 0
    /\ lastWait = 0
    /\ pgPc = "top"
    /\ pgUrl = UrlOf(1)
    /\ params_local = CallerParams
    /\ pgData = <<>>
    /\ pgLink = <<>>
    /\ yielded = <<>>
    /\ lastReq = [url |-> <<>>, params |-> NoParams]
    /\ AggIdle

SpecLink == InitLink /\ [][Next]_vars

(***************************************************************************)
(* SpecLoop: one call of paged_get against servers that answer every       *)
(* request with a 200 and whose "next" links either end at the last page   *)
(* or lead from it back to the first.  The program is sequential and every *)
(* request is answered, so its next step is always taken.                  *)
(***************************************************************************)
InitLoop ==
    /\ srvPages \in {s \in Servers : \A i \in DOMAIN s : s[i] \in Bodies(i)}
    /\ srvStyle \in {"bare", "cycle"}
    /\ rgPc = "idle"
    /\ rgUrl = <<>>
    /\ rgParams = NoParams
    /\ attempt = 0
    /\ delay = 0
    /\ resp = NoResp
    /\ statLog = <<>>
    /\ waits = 0
    /\ warns = 0
    /\ lastWait = 0
    /\ pgPc = "top"
    /\ pgUrl = UrlOf(1)
    /\ params_local = CallerParams
    /\ pgData = <<>>
    /\ pgLink = <<>>
    /\ yielded = <<>>
    /\ lastReq = [url |-> <<>>, params |-> NoParams]
    /\ AggIdle

NextLoop ==
    \/ RgAttempt(200, NoHint)
    \/ PgRequest
    \/ PgReceive
    \/ PgYield
    \/ PgLink

\* the step PgLink as its guard and the variables it changes: enabled exactly
\* when PgLink is, and every PgLink step is one
PgLinkTaken ==
    /\ pgPc = "yield"
    /\ pgData = <<>>
    /\ pgPc' \in {"done", "top"}
    /\ pgUrl' \in {UrlOf(i) : i \in 1..Len(UrlName)}
    /\ UNCHANGED <<params_local, pgData, pgLink, yielded>>
    /\ UNCHANGED <<srvVars, rgVars, lastReq, aggVars>>

SpecLoop ==
    /\ InitLoop /\ [][NextLoop]_vars
    /\ WF_vars(RgAttempt(200, NoHint))
    /\ WF_vars(PgRequest) /\ WF_vars(PgReceive) /\ WF_vars(PgYield)
    /\ WF_vars(PgLinkTaken)

(***************************************************************************)
(* main and build_summary_for_student.  A fetch of the aggregation is one  *)
(* step whose outcome is what paged_get and robust_get can produce: the    *)
(* fetch raises, or it delivers its data.                                  *)
(***************************************************************************)
Fail == [fail |-> TRUE]

\* str(cid)
CidText(c) == <<<<"1", "2", "3", "4", "5", "6", "7", "8", "9">>[c]>>

\* the order of Python's str comparison on the course names of the model
NameOrder ==
    <<"1", "2", "3", "4", "5", "6", "7", "8", "9", "Algebra", "Biology">>

NameRank(nm) == CHOOSE i \in 1..Len(NameOrder) : NameOrder[i] = nm[1]

\* sorted(course_names): insertion of each name into the sorted rest
RECURSIVE InsertName(_, _)
InsertName(nm, sorted) ==
    IF sorted = <<>> THEN <<nm>>
    ELSE IF NameRank(nm) <= NameRank(Head(sorted)) THEN <<nm>> \o sorted
    ELSE <<Head(sorted)>> \o InsertName(nm, Tail(sorted))

RECURSIVE SortedNames(_)
SortedNames(names) ==
    IF names = <<>> THEN <<>>
    ELSE InsertName(Head(names), SortedNames(Tail(names)))

\* a row list that takes each new row at its front
PrependRow(rs, row) == <<row>> \o rs

\* line 338: rows.append(row)
AppendRow(rs, row) == Append(rs, row)

\* an exporter that rewrites the output file whenever a row is added
FileCheckpointed(file, rs) == rs

\* lines 338-339: the row is kept in memory only; "Wrote row for student" is
\* a log line, the output file is not opened before line 341
FileAfterAppend(file, rs) == file

\* line 322: the generator of list_students requests its next page
MainFetchPage(out) ==
    /\ mPc = "list"
    /\ stuBuf = <<>>
    /\ stuMore
    /\ IF out.fail
       THEN /\ mPc' = "aborted"
            /\ abortCause' = "students"
            /\ UNCHANGED <<stuBuf, stuMore, stuFetched>>
       ELSE /\ stuBuf' = out.page
            /\ stuMore' = out.more
            /\ stuFetched' = stuFetched + 1
            /\ UNCHANGED <<mPc, abortCause>>
    /\ UNCHANGED <<total_students, matched_students, rows, written, passed>>
    /\ UNCHANGED <<pagingVars, upVars, cliVars, bsVars>>

\* lines 322-337: the next student of the listing; a student that passes the
\* filters enters build_summary_for_student
MainTake ==
    /\ mPc = "list"
    /\ stuBuf # <<>>
    /\ stuBuf' = Tail(stuBuf)
    /\ total_students' = total_students + 1
    /\ user' = Head(stuBuf)
    /\ LET u == Head(stuBuf)
       IN  IF u.id # 0 /\ PassesFilter(u.id, Strip(u.sis_user_id),
                                       include_canvas_ids, include_sis_ids)
           THEN /\ matched_students' = matched_students + 1
                /\ passed' = Append(passed, u)
                /\ mPc' = "build"
                /\ bsPc' = "enroll"
           ELSE UNCHANGED <<matched_students, passed, mPc, bsPc>>
    /\ UNCHANGED <<stuMore, stuFetched, rows, written, abortCause>>
    /\ UNCHANGED <<enrVars, total_courses, overall_status, obsVars, summary, failed>>
    /\ UNCHANGED <<pagingVars, upVars, cliVars>>

\* an exception leaves build_summary_for_student and main, which has no handler
Propagate(kind) ==
    /\ bsPc' = "raised"
    /\ mPc' = "aborted"
    /\ abortCause' = kind

\* lines 186-187: list(client.list_student_enrollments(...)).  The rows of the
\* list are arbitrary and read only by the loop, so the model keeps their
\* number and draws each row when the loop reaches it.
BsEnrollments(out) ==
    /\ bsPc = "enroll"
    /\ IF out.fail
       THEN /\ failed' = failed \cup {"enrollments"}
            /\ IF Handler("enrollments") = "propagate"
               THEN Propagate("enrollments") /\ UNCHANGED enrLeft
               ELSE /\ bsPc' = "loop"
                    /\ enrLeft' = 0
                    /\ UNCHANGED <<mPc, abortCause>>
       ELSE /\ bsPc' = "loop"
            /\ enrLeft' = out.n
            /\ UNCHANGED <<mPc, abortCause, failed>>
    /\ UNCHANGED <<cid, course_ids, statuses, earliest_enrollment, course_names,
                   total_assignments, completed_assignments, seenCids, thisCourse,
                   seenStamps>>
    /\ UNCHANGED <<user, total_courses, overall_status, obsVars, summary>>
    /\ UNCHANGED <<stuBuf, stuMore, stuFetched, total_students, matched_students,
                   rows, written, passed>>
    /\ UNCHANGED <<pagingVars, upVars, cliVars>>

\* lines 189-197: the head of the loop body for the next enrollment row
BsEnrRow(enr) ==
    /\ bsPc = "loop"
    /\ enrLeft > 0
    /\ enrLeft' = enrLeft - 1
    /\ seenCids' = seenCids \cup {enr.course_id}
    /\ seenStamps' = seenStamps \cup {iso_parse(enr.created_at)}
    /\ IF enr.course_id = 0
       THEN UNCHANGED <<bsPc, cid, course_ids, statuses, earliest_enrollment,
                        thisCourse, failed, mPc, abortCause>>
       ELSE /\ cid' = enr.course_id
            /\ thisCourse' = [before |-> <<total_assignments, completed_assignments>>,
                              failed |-> {}]
            /\ course_ids' = course_ids \cup {enr.course_id}
            /\ statuses' = Append(statuses, enr.enrollment_state)
            /\ IF CompareRaises(earliest_enrollment, iso_parse(enr.created_at))
               THEN /\ failed' = failed \cup {"timestamps"}
                    /\ Propagate("timestamps")
                    /\ UNCHANGED earliest_enrollment
               ELSE /\ earliest_enrollment' =
                           Earliest(earliest_enrollment, iso_parse(enr.created_at))
                    /\ bsPc' = "course"
                    /\ UNCHANGED <<failed, mPc, abortCause>>
    /\ UNCHANGED <<course_names, total_assignments, completed_assignments>>
    /\ UNCHANGED <<user, total_courses, overall_status, obsVars, summary>>
    /\ UNCHANGED <<stuBuf, stuMore, stuFetched, total_students, matched_students,
                   rows, written, passed>>
    /\ UNCHANGED <<pagingVars, upVars, cliVars>>

\* lines 199-207: client.get_course(cid) in its try block
BsCourse(out) ==
    /\ bsPc = "course"
    /\ IF out.fail /\ Handler("course") = "propagate"
       THEN Propagate("course")
       ELSE /\ bsPc' = IF include_assignments THEN "assign" ELSE "loop"
            /\ UNCHANGED <<mPc, abortCause>>
    /\ IF out.fail
       THEN failed' = failed \cup {"course"} /\ UNCHANGED course_names
       ELSE /\ course_names' =
                   Append(course_names,
                          IF out.name # <<>> THEN out.name ELSE CidText(cid))
            /\ UNCHANGED failed
    /\ thisCourse' = FetchLogged(thisCourse, "course", out.fail)
    /\ UNCHANGED <<enrLeft, cid, course_ids, statuses, earliest_enrollment,
                   total_assignments, completed_assignments, seenCids, seenStamps>>
    /\ UNCHANGED <<user, total_courses, overall_status, obsVars, summary>>
    /\ UNCHANGED <<stuBuf, stuMore, stuFetched, total_students, matched_students,
                   rows, written, passed>>
    /\ UNCHANGED <<pagingVars, upVars, cliVars>>

\* lines 208-211: list(client.list_course_assignments(cid)) in its try block
BsAssignments(out) ==
    /\ bsPc = "assign"
    /\ IF out.fail /\ Handler("assignments") = "propagate"
       THEN Propagate("assignments")
       ELSE /\ bsPc' = IF out.fail THEN "loop" ELSE "subs"
            /\ UNCHANGED <<mPc, abortCause>>
    /\ IF out.fail
       THEN failed' = failed \cup {"assignments"} /\ UNCHANGED total_assignments
       ELSE total_assignments' = total_assignments + out.n /\ UNCHANGED failed
    /\ thisCourse' = FetchLogged(thisCourse, "assignments", out.fail)
    /\ UNCHANGED <<enrLeft, cid, course_ids, statuses, earliest_enrollment,
                   course_names, completed_assignments, seenCids, seenStamps>>
    /\ UNCHANGED <<user, total_courses, overall_status, obsVars, summary>>
    /\ UNCHANGED <<stuBuf, stuMore, stuFetched, total_students, matched_students,
                   rows, written, passed>>
    /\ UNCHANGED <<pagingVars, upVars, cliVars>>

\* lines 212-219: the loop over client.list_student_submissions(cid, user_id);
\* the count of the course is added only when the whole stream was read
BsSubmissions(out) ==
    /\ bsPc = "subs"
    /\ IF out.fail /\ Handler("submissions") = "propagate"
       THEN Propagate("submissions")
       ELSE bsPc' = "loop" /\ UNCHANGED <<mPc, abortCause>>
    /\ IF out.fail
       THEN failed' = failed \cup {"submissions"} /\ UNCHANGED completed_assignments
       ELSE /\ completed_assignments' = completed_assignments + CountComplete(out.subs)
            /\ UNCHANGED failed
    /\ thisCourse' = FetchLogged(thisCourse, "submissions", out.fail)
    /\ UNCHANGED <<enrLeft, cid, course_ids, statuses, earliest_enrollment,
                   course_names, total_assignments, seenCids, seenStamps>>
    /\ UNCHANGED <<user, total_courses, overall_status, obsVars, summary>>
    /\ UNCHANGED <<stuBuf, stuMore, stuFetched, total_students, matched_students,
                   rows, written, passed>>
    /\ UNCHANGED <<pagingVars, upVars, cliVars>>

\* how many courses the observer scan visits: list(course_ids)[:10]
ObserverCap == 10

\* lines 221-235: the loop has ended; the derived fields, and the courses the
\* observer scan will visit (a set has no order: any ObserverCap of them)
BsDerive ==
    /\ bsPc = "loop"
    /\ enrLeft = 0
    /\ total_courses' = TotalCourses(course_ids, course_names)
    /\ overall_status' = OverallStatus(statuses)
    /\ scanLeft' \in {S \in SUBSET course_ids :
                        Cardinality(S) = Min(ObserverCap, Cardinality(course_ids))}
    /\ bsPc' = "scan"
    /\ UNCHANGED <<observer_linked, parent_first, parent_last, parent_email,
                   scanned, obsCid, obsPages, obsSeen>>
    /\ UNCHANGED <<user, enrVars, summary, failed>>
    /\ UNCHANGED <<pagingVars, upVars, cliVars, mainVars>>

\* line 235: the next course of the scan, in any order
BsScanCourse(c) ==
    /\ bsPc = "scan"
    /\ obsCid = 0
    /\ c \in scanLeft
    /\ obsCid' = c
    /\ scanLeft' = scanLeft \ {c}
    /\ scanned' = scanned + 1
    /\ obsPages' = 0
    /\ UNCHANGED <<observer_linked, parent_first, parent_last, parent_email, obsSeen>>
    /\ UNCHANGED <<bsPc, user, enrVars, total_courses, overall_status, summary, failed>>
    /\ UNCHANGED <<pagingVars, upVars, cliVars, mainVars>>

\* int(obs.get("associated_user_id") or 0)
AssocInt(obs) == IF obs.assoc.kind = "int" THEN obs.assoc.val ELSE 0

\* a loop body in which a later matching record overwrites the fields
ObsRecordLastWins(acc, obs, user_id) ==
    IF obs.assoc.kind = "text" THEN [acc EXCEPT !.raised = TRUE]
    ELSE IF AssocInt(obs) # user_id THEN acc
    ELSE LET u  == IF obs.hasUser THEN obs.user ELSE NoUser
             fl == split_first_last(u.name, u.sortable_name)
         IN  [linked |-> "Yes", first |-> fl[1], last |-> fl[2],
              email |-> pick_email(u), raised |-> FALSE]

\* lines 237-244 for one observer record; acc.raised: int() raised ValueError
ObsRecord(acc, obs, user_id) ==
    IF obs.assoc.kind = "text" THEN [acc EXCEPT !.raised = TRUE]
    ELSE IF AssocInt(obs) # user_id THEN acc
    ELSE LET u  == IF obs.hasUser THEN obs.user ELSE NoUser
             fl == split_first_last(u.name, u.sortable_name)
         IN  [linked  |-> "Yes",
              first   |-> IF acc.first # <<>> THEN acc.first ELSE fl[1],
              last    |-> IF acc.last # <<>> THEN acc.last ELSE fl[2],
              email   |-> IF acc.email # <<>> THEN acc.email ELSE pick_email(u),
              raised  |-> FALSE]

\* the records of one page, in order, up to the first one that raises
RECURSIVE ObsRecords(_, _, _)
ObsRecords(acc, page, user_id) ==
    IF page = <<>> \/ acc.raised THEN acc
    ELSE ObsRecords(ObsRecord(acc, Head(page), user_id), Tail(page), user_id)

\* the records of a page that the loop reads: all up to one that raises
RECURSIVE RecordsRead(_)
RecordsRead(page) ==
    IF page = <<>> THEN {}
    ELSE IF Head(page).assoc.kind = "text" THEN {Head(page)}
    ELSE {Head(page)} \cup RecordsRead(Tail(page))

\* lines 236-246: one page of client.list_course_observer_enrollments(cid) and
\* the loop body over its records, in the try block of the scan
BsObsPage(out) ==
    /\ bsPc = "scan"
    /\ obsCid # 0
    /\ LET acc == [linked |-> observer_linked, first |-> parent_first,
                   last |-> parent_last, email |-> parent_email, raised |-> FALSE]
           res == IF out.fail THEN acc ELSE ObsRecords(acc, out.page, user.id)
           err == out.fail \/ res.raised
       IN  /\ observer_linked' = res.linked
           /\ parent_first' = res.first
           /\ parent_last' = res.last
           /\ parent_email' = res.email
           /\ obsSeen' = IF out.fail THEN obsSeen ELSE obsSeen \cup RecordsRead(out.page)
           /\ failed' = IF out.fail THEN failed \cup {"observer"}
                        ELSE IF res.raised THEN failed \cup {"observer_record"}
                        ELSE failed
           /\ IF err /\ Handler("observer") = "propagate"
              THEN Propagate("observer") /\ UNCHANGED <<obsCid, obsPages>>
              ELSE /\ bsPc' = IF err THEN "finish" ELSE "scan"
                   /\ obsCid' = IF ~err /\ out.more THEN obsCid ELSE 0
                   /\ obsPages' = obsPages + 1
                   /\ UNCHANGED <<mPc, abortCause>>
    /\ UNCHANGED <<scanLeft, scanned>>
    /\ UNCHANGED <<user, enrVars, total_courses, overall_status, summary>>
    /\ UNCHANGED <<stuBuf, stuMore, stuFetched, total_students, matched_students,
                   rows, written, passed>>
    /\ UNCHANGED <<pagingVars, upVars, cliVars>>

\* line 235: the scan has visited its courses
BsScanDone ==
    /\ bsPc = "scan"
    /\ obsCid = 0
    /\ scanLeft = {}
    /\ bsPc' = "finish"
    /\ UNCHANGED <<user, enrVars, total_courses, overall_status, obsVars, summary, failed>>
    /\ UNCHANGED <<pagingVars, upVars, cliVars, mainVars>>

\* "x if include_assignments else ''"
Metric(include, n) == [empty |-> ~include, n |-> IF include THEN n ELSE 0]

\* lines 248-275: the summary returned
BsReturn ==
    /\ bsPc = "finish"
    /\ summary' =
         [made |-> TRUE,
          first |-> split_first_last(user.name, user.sortable_name)[1],
          last |-> split_first_last(user.name, user.sortable_name)[2],
          sis_user_id |-> Strip(user.sis_user_id),
          email |-> pick_email(user),
          parent_first |-> parent_first,
          parent_last |-> parent_last,
          parent_email |-> parent_email,
          enrollment_date |-> earliest_enrollment,
          observer_linked |-> observer_linked,
          total_assignments |-> Metric(include_assignments, total_assignments),
          completed_assignments |-> Metric(include_assignments, completed_assignments),
          total_courses |-> total_courses,
          progress |-> Progress(include_assignments, total_assignments,
                                completed_assignments),
          status |-> overall_status,
          course_names |-> SortedNames(course_names)]
    /\ bsPc' = "return"
    /\ UNCHANGED <<user, enrVars, total_courses, overall_status, obsVars, failed>>
    /\ UNCHANGED <<pagingVars, upVars, cliVars, mainVars>>

\* lines 337-339: main appends the row; the call and its locals are gone
MainAppend ==
    /\ bsPc = "return"
    /\ rows' = AppendRow(rows, summary)
    /\ mPc' = "list"
    /\ bsPc' = "off"
    /\ user' = NoUserRow
    /\ written' = FileAfterAppend(written, AppendRow(rows, summary))
    /\ BsLocalsFresh
    /\ UNCHANGED <<stuBuf, stuMore, stuFetched, total_students, matched_students,
                   passed, abortCause>>
    /\ UNCHANGED <<pagingVars, upVars, cliVars>>

\* lines 341-346: the listing is exhausted; the rows go to the CSV file
MainWrite ==
    /\ mPc = "list"
    /\ stuBuf = <<>>
    /\ ~stuMore
    /\ written' = rows
    /\ mPc' = "done"
    /\ UNCHANGED <<stuBuf, stuMore, stuFetched, total_students, matched_students,
                   rows, passed, abortCause>>
    /\ UNCHANGED <<pagingVars, upVars, cliVars, bsVars>>

(***************************************************************************)
(* What the upstream server may answer to the fetches of the aggregation.  *)
(* An environment names, for every fetch, the outcomes the server may      *)
(* produce; the specifications below differ only in their environment.     *)
(***************************************************************************)
SeqsUpTo(S, n) == UNION {[1..k -> S] : k \in 0..n}
SeqsFrom1(S, n) == UNION {[1..k -> S] : k \in 1..n}

UserName == <<"Ann", "Bob">>

\* a student of the listing; id 0 is a record without id
Student(i, sis) ==
    [id |-> i, sis_user_id |-> sis,
     name |-> IF i = 0 THEN <<>> ELSE <<UserName[i], " ", "Student">>,
     sortable_name |-> <<>>, email |-> <<>>,
     login_id |-> IF i = 0 THEN <<>> ELSE <<UserName[i]>>]

\* created_at values: a timestamp with a zone ("...Z"), one without, a text
\* that is no timestamp, and a missing value
Iso(t) == [kind |-> "iso", t |-> t, aware |-> TRUE]
IsoNaive(t) == [kind |-> "iso", t |-> t, aware |-> FALSE]
BadStamp == [kind |-> "text", t |-> 0, aware |-> FALSE]
NoStamp == [kind |-> "none", t |-> 0, aware |-> FALSE]

EnrollmentRows(cids, states, stamps) ==
    {[course_id |-> c, enrollment_state |-> st, created_at |-> ts] :
        c \in cids, st \in states, ts \in stamps}

AllStates == {"", "active", "completed", "deleted", "inactive", "invited", "pending"}

Submission(at, state) == [submitted_at |-> at, workflow_state |-> state]

Guardian1 ==
    [name |-> <<"Lee", " ", "Kim">>, sortable_name |-> <<"Kim", ",", " ", "Lee">>,
     email |-> <<"lee@x">>, login_id |-> <<"lee">>]

Guardian2 ==
    [name |-> <<"Pat">>, sortable_name |-> <<>>, email |-> <<>>, login_id |-> <<>>]

ObserverRow(kind, val, hasUser, u) ==
    [assoc |-> [kind |-> kind, val |-> val], hasUser |-> hasUser, user |-> u]

\* observer records of student 1: matching ones with a full, a partial and no
\* user record, one of another student, and one whose id is not a number
ObserverRows ==
    {ObserverRow("int", 1, TRUE, Guardian1), ObserverRow("int", 1, TRUE, Guardian2),
     ObserverRow("int", 1, FALSE, NoUser), ObserverRow("int", 2, TRUE, Guardian1),
     ObserverRow("text", 0, TRUE, Guardian1)}

Ok(field, values) == {[fail |-> FALSE] @@ (field :> v) : v \in values}

Pages(pages) == {[fail |-> FALSE, page |-> pg, more |-> m] : pg \in pages, m \in BOOLEAN}

EmptyPage == [fail |-> FALSE, page |-> <<>>, more |-> FALSE]

OneStudent == {[fail |-> FALSE, page |-> <<Student(1, <<"S1">>)>>, more |-> FALSE]}

\* SpecAgg: one student; every fetch of the aggregation may fail
AggEnv ==
    [profile   |-> "agg",
     students  |-> {Fail} \cup OneStudent,
     stuPages  |-> 1,
     enrolls   |-> {Fail} \cup Ok("n", 0..MaxEnr),
     rows      |-> EnrollmentRows(0..MaxCourse, {"active"}, {Iso(1)}),
     courses   |-> {Fail} \cup Ok("name", {<<>>}),
     assigns   |-> {Fail} \cup Ok("n", {1}),
     subs      |-> {Fail} \cup Ok("subs", {<<Submission(TRUE, "submitted")>>}),
     observers |-> {Fail, EmptyPage},
     obsPages  |-> 1]

\* SpecObs: one student; the observer listings vary and may fail
ObsEnv ==
    [profile   |-> "observer",
     students  |-> OneStudent,
     stuPages  |-> 1,
     enrolls   |-> Ok("n", 0..2),
     rows      |-> EnrollmentRows({1, 2}, {"active"}, {Iso(1)}),
     courses   |-> Ok("name", {<<>>}),
     assigns   |-> Ok("n", {0}),
     subs      |-> Ok("subs", {<<>>}),
     observers |-> {Fail, EmptyPage} \cup Pages(SeqsFrom1(ObserverRows, MaxObs)),
     obsPages  |-> MaxObsPages]

\* SpecDate: one student; the course ids and the creation timestamps of the
\* enrollment rows vary
DateEnv ==
    [profile   |-> "date",
     students  |-> OneStudent,
     stuPages  |-> 1,
     enrolls   |-> Ok("n", 0..MaxStamps),
     rows      |-> EnrollmentRows({0, 1, 2}, {"active"},
                                  {Iso(1), Iso(2), IsoNaive(1), BadStamp, NoStamp}),
     courses   |-> Ok("name", {<<"Algebra">>}),
     assigns   |-> Ok("n", {0}),
     subs      |-> Ok("subs", {<<>>}),
     observers |-> {EmptyPage},
     obsPages  |-> 1]

\* SpecMain: a listing of several students; the listing and the enrollment
\* fetch may fail
MainEnv ==
    [profile   |-> "main",
     students  |-> {Fail} \cup Pages(SeqsFrom1({Student(1, <<"S1">>), Student(2, <<>>),
                                                 Student(0, <<"S1">>)}, 2)),
     stuPages  |-> MaxStuPages,
     enrolls   |-> {Fail} \cup Ok("n", {1}),
     rows      |-> EnrollmentRows({1}, {"active"}, {Iso(1)}),
     courses   |-> Ok("name", {<<"Algebra">>}),
     assigns   |-> Ok("n", {1}),
     subs      |-> Ok("subs", {<<Submission(TRUE, "submitted")>>}),
     observers |-> {EmptyPage},
     obsPages  |-> 1]

\* SpecStatus: one student; the enrollment states vary
StatusEnv ==
    [profile   |-> "status",
     students  |-> OneStudent,
     stuPages  |-> 1,
     enrolls   |-> Ok("n", 0..MaxStates),
     rows      |-> EnrollmentRows({0, 1}, AllStates, {Iso(1)}),
     courses   |-> Ok("name", {<<"Algebra">>}),
     assigns   |-> Ok("n", {0}),
     subs      |-> Ok("subs", {<<>>}),
     observers |-> {EmptyPage},
     obsPages  |-> 1]

\* SpecProgress: one student; the numbers of assignments and of complete
\* submissions vary
ProgressEnv ==
    [profile   |-> "progress",
     students  |-> OneStudent,
     stuPages  |-> 1,
     enrolls   |-> Ok("n", 0..MaxEnr),
     rows      |-> EnrollmentRows({1}, {"active"}, {Iso(1)}),
     courses   |-> Ok("name", {<<"Algebra">>}),
     assigns   |-> {Fail} \cup Ok("n", 0..MaxAssign),
     subs      |-> {Fail} \cup Ok("subs", SeqsUpTo({Submission(TRUE, "unsubmitted"),
                                                    Submission(FALSE, "graded"),
                                                    Submission(FALSE, "unsubmitted")},
                                                   MaxSubs)),
     observers |-> {EmptyPage},
     obsPages  |-> 1]

\* the fetch outcomes that keep a listing within its number of pages
Within(outs, fetched, limit) ==
    {o \in outs : o.fail \/ ~o.more \/ fetched + 1 < limit}

(***************************************************************************)
(* The aggregation specifications: one run of main in an environment.      *)
(***************************************************************************)
MainStart(e, canvasSets, sisSets, includes) ==
    /\ PagingIdle
    /\ UpIdle
    /\ env = e
    /\ include_canvas_ids \in canvasSets
    /\ include_sis_ids \in sisSets
    /\ include_assignments \in includes
    /\ mPc = "list"
    /\ stuBuf = <<>>
    /\ stuMore = TRUE
    /\ stuFetched = 0
    /\ total_students = 0
    /\ matched_students = 0
    /\ rows = <<>>
    /\ written = <<>> /\ passed = <<>>
    /\ abortCause = "none"
    /\ bsPc = "off"
    /\ user = NoUserRow
    /\ enrLeft = 0
    /\ cid = 0
    /\ course_ids = {}
    /\ statuses = <<>>
    /\ earliest_enrollment = NoTime
    /\ course_names = <<>>
    /\ total_assignments = 0
    /\ completed_assignments = 0
    /\ seenCids = {}
    /\ thisCourse = NoCourseLog
    /\ seenStamps = {}
    /\ total_courses = 0
    /\ overall_status = <<>>
    /\ observer_linked = "No"
    /\ parent_first = <<>>
    /\ parent_last = <<>>
    /\ parent_email = <<>>
    /\ scanLeft = {}
    /\ scanned = 0
    /\ obsCid = 0
    /\ obsPages = 0
    /\ obsSeen = {}
    /\ summary = NoSummary
    /\ failed = {}

NextAgg ==
    \/ \E out \in Within(env.students, stuFetched, env.stuPages) : MainFetchPage(out)
    \/ MainTake
    \/ \E out \in env.enrolls : BsEnrollments(out)
    \/ \E enr \in env.rows : BsEnrRow(enr)
    \/ \E out \in env.courses : BsCourse(out)
    \/ \E out \in env.assigns : BsAssignments(out)
    \/ \E out \in env.subs : BsSubmissions(out)
    \/ BsDerive
    \/ \E c \in scanLeft : BsScanCourse(c)
    \/ \E out \in Within(env.observers, obsPages, env.obsPages) : BsObsPage(out)
    \/ BsScanDone
    \/ BsReturn
    \/ MainAppend
    \/ MainWrite

InitAgg == MainStart(AggEnv, {{}}, {{}}, BOOLEAN)
SpecAgg == InitAgg /\ [][NextAgg]_vars

InitObs == MainStart(ObsEnv, {{}}, {{}}, BOOLEAN)
SpecObs == InitObs /\ [][NextAgg]_vars

InitMain == MainStart(MainEnv, {{}, {1}, {2}}, {{}, {<<"S1">>}}, BOOLEAN)
SpecMain == InitMain /\ [][NextAgg]_vars

InitDate == MainStart(DateEnv, {{}}, {{}}, BOOLEAN)
SpecDate == InitDate /\ [][NextAgg]_vars

InitStatus == MainStart(StatusEnv, {{}}, {{}}, BOOLEAN)
SpecStatus == InitStatus /\ [][NextAgg]_vars

InitProgress == MainStart(ProgressEnv, {{}}, {{}}, BOOLEAN)
SpecProgress == InitProgress /\ [][NextAgg]_vars

(***************************************************************************)
(* SpecRetry: one call of robust_get with the default budget; each request *)
(* is answered with any status and any Retry-After header.                 *)
(***************************************************************************)
InitRetry ==
    /\ srvPages = <<ListBody(1, 0)>>
    /\ srvStyle = "bare"
    /\ rgPc = "loop"
    /\ rgUrl = UrlOf(1)
    /\ rgParams = NoParams
    /\ attempt = 1
    /\ delay = InitialDelay
    /\ resp = NoResp
    /\ statLog = <<>>
    /\ waits = 0
    /\ warns = 0
    /\ lastWait = 0
    /\ pgPc = "off"
    /\ pgUrl = <<>>
    /\ params_local = NoParams
    /\ pgData = <<>>
    /\ pgLink = <<>>
    /\ yielded = <<>>
    /\ lastReq = [url |-> <<>>, params |-> NoParams]
    /\ AggIdle

NextRetry ==
    \/ \E status \in Statuses, hint \in Hints : RgAttempt(status, hint)
    \/ RgExhausted

SpecRetry == InitRetry /\ [][NextRetry]_vars

(***************************************************************************)
(* upsert_csv_to_airtable.main.  A CSV row is its line number and the      *)
(* value of its unique-key column (<<>> when the column is missing or      *)
(* empty); a record of the table is its id and the value of its unique-key *)
(* field.  The server returns the table one record per page.               *)
(***************************************************************************)
RecName == <<"rec1", "rec2", "rec3", "rec4">>

NoRow == [line |-> 0, key |-> <<>>]

\* batched(lst, n)
RECURSIVE batched(_, _)
batched(lst, n) ==
    IF lst = <<>> THEN <<>>
    ELSE <<SubSeq(lst, 1, Min(n, Len(lst)))>>
         \o batched(SubSeq(lst, Min(n, Len(lst)) + 1, Len(lst)), n)

BatchSize == 10

\* r.ok
StatusOk(status) == status < 400

\* a classification that finds no key in the table
InExistingNever(k, ex) == FALSE

\* line 69: k in existing
InExisting(k, ex) == k \in DOMAIN ex

\* lines 45-59: one page of the table is read into existing
UpRead(ok) ==
    /\ upPc = "read"
    /\ IF ~ok
       THEN /\ upPc' = "raised"
            /\ UNCHANGED <<existing, offset>>
       ELSE LET rec == table[offset + 1]
                k   == Strip(rec.key)
                nxt == IF offset + 1 < Len(table) THEN offset + 1 ELSE 0
            IN  /\ existing' = IF table # <<>> /\ k # <<>>
                                THEN DictSet(existing, k, rec.id) ELSE existing
                /\ offset' = nxt
                /\ upPc' = IF nxt = 0 THEN "split" ELSE "read"
    /\ UNCHANGED <<csv_rows, table, do_softdel, rowNo, updates, creates,
                   current_keys, sent, total_upd, total_new>>
    /\ UNCHANGED <<pagingVars, cliVars, mainVars, bsVars>>

\* lines 64-72: the next row of the CSV file is classified
UpSplitRow ==
    /\ upPc = "split"
    /\ rowNo < Len(csv_rows)
    /\ rowNo' = rowNo + 1
    /\ LET row == csv_rows[rowNo + 1]
           k   == Strip(row.key)
       IN  IF k = <<>>
           THEN UNCHANGED <<current_keys, updates, creates>>
           ELSE /\ current_keys' = current_keys \cup {k}
                /\ IF InExisting(k, existing)
                   THEN /\ updates' = Append(updates, [id |-> existing[k], fields |-> row])
                        /\ UNCHANGED creates
                   ELSE /\ creates' = Append(creates, [id |-> <<>>, fields |-> row])
                        /\ UNCHANGED updates
    /\ UNCHANGED <<upPc, csv_rows, table, do_softdel, existing, offset, sent,
                   total_upd, total_new>>
    /\ UNCHANGED <<pagingVars, cliVars, mainVars, bsVars>>

\* the loop over the rows has ended
UpSplitDone ==
    /\ upPc = "split"
    /\ rowNo = Len(csv_rows)
    /\ upPc' = "patch"
    /\ UNCHANGED <<csv_rows, table, do_softdel, existing, offset, rowNo, updates,
                   creates, current_keys, sent, total_upd, total_new>>
    /\ UNCHANGED <<pagingVars, cliVars, mainVars, bsVars>>

\* the status that decides a batch: the second answer after a retryable first
FinalStatus(s1, s2) == IF s1 \in RETRY_STATUS THEN s2 ELSE s1

SentAs(kind, batch) ==
    {[kind |-> kind, id |-> batch[i].id, fields |-> batch[i].fields] :
        i \in 1..Len(batch)}

\* lines 76-84: the next batch of updates is sent
UpPatch(s1, s2) ==
    /\ upPc = "patch"
    /\ total_upd < Len(updates)
    /\ LET batch == batched(updates, BatchSize)[(total_upd \div BatchSize) + 1]
       IN  /\ sent' = sent \cup SentAs("PATCH", batch)
           /\ IF StatusOk(FinalStatus(s1, s2))
              THEN total_upd' = total_upd + Len(batch) /\ UNCHANGED upPc
              ELSE upPc' = "raised" /\ UNCHANGED total_upd
    /\ UNCHANGED <<csv_rows, table, do_softdel, existing, offset, rowNo, updates,
                   creates, current_keys, total_new>>
    /\ UNCHANGED <<pagingVars, cliVars, mainVars, bsVars>>

UpPatchDone ==
    /\ upPc = "patch"
    /\ total_upd = Len(updates)
    /\ upPc' = "post"
    /\ UNCHANGED <<csv_rows, table, do_softdel, existing, offset, rowNo, updates,
                   creates, current_keys, sent, total_upd, total_new>>
    /\ UNCHANGED <<pagingVars, cliVars, mainVars, bsVars>>

\* lines 87-95: the next batch of creates is sent
UpPost(s1, s2) ==
    /\ upPc = "post"
    /\ total_new < Len(creates)
    /\ LET batch == batched(creates, BatchSize)[(total_new \div BatchSize) + 1]
       IN  /\ sent' = sent \cup SentAs("POST", batch)
           /\ IF StatusOk(FinalStatus(s1, s2))
              THEN total_new' = total_new + Len(batch) /\ UNCHANGED upPc
              ELSE upPc' = "raised" /\ UNCHANGED total_new
    /\ UNCHANGED <<csv_rows, table, do_softdel, existing, offset, rowNo, updates,
                   creates, current_keys, total_upd>>
    /\ UNCHANGED <<pagingVars, cliVars, mainVars, bsVars>>

\* lines 97-100
UpPostDone ==
    /\ upPc = "post"
    /\ total_new = Len(creates)
    /\ upPc' = IF do_softdel THEN "softdel" ELSE "done"
    /\ UNCHANGED <<csv_rows, table, do_softdel, existing, offset, rowNo, updates,
                   creates, current_keys, sent, total_upd, total_new>>
    /\ UNCHANGED <<pagingVars, cliVars, mainVars, bsVars>>

\* lines 101-137: the table is read again and the records whose key is not in
\* the CSV file are marked; an HTTP error ends the step without failing the job
UpSoftDelete(ok) ==
    /\ upPc = "softdel"
    /\ LET to_mark == {i \in 1..Len(table) :
                         /\ Strip(table[i].key) # <<>>
                         /\ Strip(table[i].key) \notin current_keys}
       IN  sent' = IF ok
                   THEN sent \cup {[kind |-> "MARK", id |-> table[i].id,
                                    fields |-> NoRow] : i \in to_mark}
                   ELSE sent
    /\ upPc' = "done"
    /\ UNCHANGED <<csv_rows, table, do_softdel, existing, offset, rowNo, updates,
                   creates, current_keys, total_upd, total_new>>
    /\ UNCHANGED <<pagingVars, cliVars, mainVars, bsVars>>

\* values of the unique-key column of a CSV row and of a record
CsvKeys == {<<>>, <<" ">>, <<"A", " ">>, <<"B">>, <<"C">>}
TableKeys == {<<>>, <<"A">>, <<" ", "B">>}

CsvFiles ==
    {[i \in 1..Len(ks) |-> [line |-> i, key |-> ks[i]]] : ks \in SeqsUpTo(CsvKeys, MaxCsv)}

Tables ==
    {[i \in 1..Len(ks) |-> [id |-> <<RecName[i]>>, key |-> ks[i]]] :
        ks \in SeqsUpTo(TableKeys, MaxRecs)}

InitUpsert ==
    /\ PagingIdle
    /\ MainIdle
    /\ upPc = "read"
    /\ csv_rows \in CsvFiles
    /\ table \in Tables
    /\ do_softdel \in BOOLEAN
    /\ existing = EmptyDict
    /\ offset = 0
    /\ rowNo = 0
    /\ updates = <<>>
    /\ creates = <<>>
    /\ current_keys = {}
    /\ sent = {}
    /\ total_upd = 0
    /\ total_new = 0

NextUpsert ==
    \/ \E ok \in BOOLEAN : UpRead(ok)
    \/ UpSplitRow
    \/ UpSplitDone
    \/ \E s1 \in {200, 422, 503}, s2 \in {200, 503} : UpPatch(s1, s2)
    \/ UpPatchDone
    \/ \E s1 \in {200, 422, 503}, s2 \in {200, 503} : UpPost(s1, s2)
    \/ UpPostDone
    \/ \E ok \in BOOLEAN : UpSoftDelete(ok)

SpecUpsert == InitUpsert /\ [][NextUpsert]_vars

(***************************************************************************)
(* Properties of the paginator and of the retrying GET.                    *)
(***************************************************************************)
IsPrefix(a, b) == Len(a) <= Len(b) /\ SubSeq(b, 1, Len(a)) = a

\* the items of pages 1..n of the server, page after page
RECURSIVE ItemsUpTo(_)
ItemsUpTo(n) ==
    IF n = 0 THEN <<>>
    ELSE ItemsUpTo(n - 1)
         \o (IF srvPages[n].isList THEN srvPages[n].json ELSE <<srvPages[n].json>>)

Last(s) == s[Len(s)]

\* C1: over a chain of N pages linked by rel="next", paged_get yields the
\* items of the pages in page order and in the server's order inside each
\* page: what it has yielded is always a prefix of the concatenation of all
\* pages, and when it ends normally it is the whole concatenation (the single
\* page's items when the first response has no "next" link).
C1_PagedConcatenation ==
    /\ IsPrefix(yielded, ItemsUpTo(Len(srvPages)))
    /\ pgPc = "done" => yielded = ItemsUpTo(Len(srvPages))

C1_Witness ==
    /\ pgPc = "done"
    /\ Len(srvPages) >= 3
    /\ \A i \in 1..3 : srvPages[i].isList /\ Len(srvPages[i].json) >= 2
    /\ Len(yielded) >= 6

\* C2: robust_get issues at most 5 requests, goes on only after a status of
\* {429, 500, 502, 503, 504}, ends at the first other status or after the 5th
\* request; after [503, 503, 200] it has retried twice and returns the 200;
\* after five 503s it raises, having made exactly 5 requests and no 6th.
C2_RetryBudget ==
    /\ Len(statLog) <= 5
    /\ \A i \in 1..(Len(statLog) - 1) : statLog[i] \in {429, 500, 502, 503, 504}
    /\ rgPc = "loop" => attempt = Len(statLog) + 1
    /\ rgPc = "loop" /\ statLog # <<>> => Last(statLog) \in {429, 500, 502, 503, 504}
    /\ rgPc \in {"returned", "raised"} =>
          \/ Last(statLog) \notin {429, 500, 502, 503, 504}
          \/ Len(statLog) = 5
    /\ rgPc = "returned" => resp.status = Last(statLog)
    /\ statLog = <<503, 503, 200>> =>
          rgPc = "returned" /\ resp.status = 200 /\ attempt - 1 = 2
    /\ statLog = <<503, 503, 503, 503, 503>> =>
          /\ rgPc \in {"loop", "raised"}
          /\ rgPc = "loop" => ~(ENABLED (\E st \in Statuses, h \in Hints : RgAttempt(st, h)))
    /\ rgPc = "raised" /\ Last(statLog) \in {429, 500, 502, 503, 504} =>
          Len(statLog) = 5

C2_Witness == rgPc = "raised" /\ statLog = <<503, 503, 503, 503, 503>>

\* C3 (as claimed): a response whose status is neither 2xx nor one of
\* {429, 500, 502, 503, 504} makes robust_get raise on that attempt, without
\* a wait; such a response is never returned to the caller.
C3_NonRetryableFails ==
    /\ rgPc = "returned" => resp.status \in 200..299
    /\ /\ statLog # <<>>
       /\ Last(statLog) \notin 200..299
       /\ Last(statLog) \notin {429, 500, 502, 503, 504}
       => rgPc = "raised" /\ waits = Len(statLog) - 1

\* the backoff 1, 2, 4, 8, 16, 30 before attempt k when no hint interferes
RECURSIVE PlainBackoff(_)
PlainBackoff(k) == IF k <= 1 THEN 1 ELSE Min(2 * PlainBackoff(k - 1), 30)

\* C4 (as claimed): the backoff starts at 1 and doubles after each retry up
\* to 30, so before attempt k it is min(2^(k-1), 30).
C4_BackoffDoublesEachRetry ==
    rgPc = "loop" /\ attempt <= 5 => delay = PlainBackoff(attempt)

\* a retry step: the request was answered with a retryable status
RetryTaken == rgPc = "loop" /\ waits' = waits + 1

\* C4 (amended): the backoff starts at 1 and never exceeds 30 between
\* attempts; the wait before a retry is the current backoff when the response
\* has no numeric Retry-After, and the larger of the backoff and the hint when
\* it has one; the next backoff is twice the wait just taken, capped at 30; a
\* wait is never shorter than the backoff computed without hints.
C4_BackoffAndHint ==
    /\ [](rgPc = "loop" /\ attempt = 1 => delay = 1)
    /\ [](rgPc = "loop" => delay <= 30)
    /\ [](waits > 0 => lastWait >= PlainBackoff(waits))
    /\ [][RetryTaken =>
            /\ lastWait' = IF resp'.hint.kind = "number" /\ resp'.hint.val > delay
                           THEN resp'.hint.val
                           ELSE delay
            /\ delay' = IF 2 * lastWait' > 30 THEN 30 ELSE 2 * lastWait']_vars

C4_Witness ==
    /\ waits = 2
    /\ lastWait = 6
    /\ resp.hint.kind = "absent"
    /\ delay = 12

(***************************************************************************)
(* Properties of the aggregation.                                          *)
(***************************************************************************)
\* the loop over the enrollments has ended
Derived == bsPc \in {"scan", "finish", "return"}

\* C5: when the enrollment listing of a student raises, the exception leaves
\* build_summary_for_student and main: no summary exists for the student and
\* the rows are those of the students matched before him.
C5_EnrollmentFailureIsFatal ==
    "enrollments" \in failed =>
        /\ bsPc = "raised"
        /\ mPc = "aborted"
        /\ abortCause = "enrollments"
        /\ summary = NoSummary
        /\ Len(rows) = matched_students - 1
        /\ ~ENABLED NextAgg

C5_Witness ==
    /\ "enrollments" \in failed
    /\ Len(rows) = 1
    /\ matched_students = 2

\* C6: when the enrollment listing succeeds, no failure of a course,
\* assignments, submissions or observer fetch leaves the aggregation: the
\* only exceptions that end the run are those of the student listing and of
\* the enrollment listing, every enrollment row is processed before the
\* summary is derived, and the aggregation can always take its next step
\* until it has returned the summary.
C6_NestedFailuresAreCaught ==
    /\ abortCause \in {"none", "students", "enrollments"}
    /\ bsPc = "raised" => "enrollments" \in failed
    /\ Derived => enrLeft = 0
    /\ bsPc = "return" => summary.made
    /\ mPc = "build" /\ "enrollments" \notin failed => ENABLED NextAgg

C6_Witness ==
    /\ bsPc = "return"
    /\ summary.made
    /\ failed = {"course", "assignments", "submissions", "observer"}

\* the text of a sorted, de-duplicated, comma-joined set of states
IsSortedJoin(text, S) ==
    /\ Len(text) = IF S = {} THEN 0 ELSE 2 * Cardinality(S) - 1
    /\ \A i \in 1..Len(text) : i % 2 = 0 => text[i] = ","
    /\ {text[i] : i \in {j \in 1..Len(text) : j % 2 = 1}} = S
    /\ \A i, j \in 1..Len(text) :
          i % 2 = 1 /\ j % 2 = 1 /\ i < j => Rank(text[i]) < Rank(text[j])

C8_TotalCourses ==
    /\ Derived => total_courses = Cardinality(seenCids \ {0})
    /\ summary.made => summary.total_courses = Cardinality(seenCids \ {0})

C8_Witness ==
    /\ summary.made
    /\ "course" \in failed
    /\ Len(statuses) = 2
    /\ summary.total_courses = 1
    /\ course_names = <<>>

\* progress is set exactly when harvesting is enabled and there are assignments
ProgressSetIff ==
    summary.made =>
        /\ ~summary.progress.empty <=> (include_assignments /\ total_assignments > 0)
        /\ summary.progress.empty => summary.progress = [empty |-> TRUE, hundredths |-> 0]

\* C9 (as claimed): a progress that is set equals
\* 100 * completed_assignments / total_assignments.
C9_ProgressExact ==
    /\ ProgressSetIff
    /\ summary.made /\ ~summary.progress.empty =>
          summary.progress.hundredths * total_assignments
              = 10000 * completed_assignments

\* C9 (amended): progress is set if and only if harvesting is enabled and
\* total_assignments > 0; it is then 100 * completed / total rounded to two
\* decimals (10 total, 3 completed -> 30.00); otherwise it is the empty value.
C9_ProgressRounded ==
    /\ ProgressSetIff
    /\ summary.made /\ ~summary.progress.empty =>
          LET d == summary.progress.hundredths * total_assignments
                       - 10000 * completed_assignments
          IN  2 * d <= total_assignments /\ -2 * d <= total_assignments
    /\ summary.made /\ include_assignments
          /\ total_assignments = 10 /\ completed_assignments = 3
          => summary.progress = [empty |-> FALSE, hundredths |-> 3000]

C9_Witness ==
    /\ summary.made
    /\ total_assignments = 10
    /\ completed_assignments = 3
    /\ summary.progress = [empty |-> FALSE, hundredths |-> 3000]

\* a record of the current student read by the observer scan
MatchRead == \E r \in obsSeen : r.assoc.kind = "int" /\ r.assoc.val = user.id

\* C10 (as claimed): after a failed fetch of the observer scan the summary
\* has no linkage.
C10_FailureMeansNoLinkage ==
    "observer" \in failed =>
        /\ bsPc \in {"finish", "return"}
        /\ observer_linked = "No"
        /\ parent_first = <<>> /\ parent_last = <<>> /\ parent_email = <<>>

\* C10 (amended): a failed fetch of the observer scan is not propagated; it
\* ends the scan, and the summary keeps the linkage of the records read
\* before it: observer_linked is "Yes" exactly when a record of the student
\* was read before the failure, and the guardian fields are empty when none
\* was.
C10_FailureKeepsLinkage ==
    "observer" \in failed =>
        /\ bsPc \in {"finish", "return"}
        /\ abortCause = "none"
        /\ observer_linked = (IF MatchRead THEN "Yes" ELSE "No")
        /\ ~MatchRead =>
              parent_first = <<>> /\ parent_last = <<>> /\ parent_email = <<>>
        /\ summary.made =>
              /\ summary.observer_linked = observer_linked
              /\ summary.parent_first = parent_first
              /\ summary.parent_last = parent_last
              /\ summary.parent_email = parent_email

C10_Witness ==
    /\ "observer" \in failed
    /\ summary.made
    /\ summary.observer_linked = "Yes"
    /\ summary.parent_email = <<"lee@x">>

\* the guardian state of the scan, as the loop body sees it
ScanAcc ==
    [linked |-> observer_linked, first |-> parent_first, last |-> parent_last,
     email |-> parent_email, raised |-> FALSE]

\* a step of the observer scan of one student
ScanStep == bsPc = "scan" /\ bsPc' \in {"scan", "finish"}

\* C11: within the observer scan of a student a guardian field that holds a
\* non-empty value is never changed, observer_linked never goes back to "No",
\* and processing again any matching record already processed leaves the
\* guardian fields and observer_linked as they are.
C11_FirstWriteWins ==
    /\ [](bsPc \in {"scan", "finish", "return"} =>
            \A r \in obsSeen : ObsRecord(ScanAcc, r, user.id).raised
                                  \/ ObsRecord(ScanAcc, r, user.id) = ScanAcc)
    /\ [][ScanStep =>
            /\ parent_first # <<>> => parent_first' = parent_first
            /\ parent_last # <<>> => parent_last' = parent_last
            /\ parent_email # <<>> => parent_email' = parent_email
            /\ observer_linked = "Yes" => observer_linked' = "Yes"]_vars

C11_Witness ==
    /\ bsPc = "return"
    /\ \E r1, r2 \in obsSeen :
          /\ r1.assoc = r2.assoc /\ r1.assoc.val = user.id
          /\ r1.user = Guardian1 /\ r2.user = Guardian2
    /\ summary.parent_first = <<"Pat">>
    /\ summary.parent_last = <<"Kim">>
    /\ summary.parent_email = <<"lee@x">>

\* the loop of main reads the next student of the listing
TakesStudent == mPc = "list" /\ stuBuf # <<>> /\ total_students' = total_students + 1

\* the student read by that step is matched
Matches == matched_students' = matched_students + 1

\* C12 (as claimed): a student passes if no filter is configured, or if its id
\* is in the allowed id set, or if its non-empty institutional id is in the
\* allowed institutional-id set.
C12_EitherFilterIsEnough ==
    [][TakesStudent =>
         LET u   == Head(stuBuf)
             sis == Strip(u.sis_user_id)
         IN  u.id # 0 =>
               (Matches <=>
                  \/ include_canvas_ids = {} /\ include_sis_ids = {}
                  \/ include_canvas_ids # {} /\ u.id \in include_canvas_ids
                  \/ include_sis_ids # {} /\ sis # <<>> /\ sis \in include_sis_ids)]_vars

\* C12 (amended): a student with an id passes if and only if it satisfies
\* every configured filter: its id is in the allowed id set when that set is
\* configured, and its institutional id is non-empty and in the allowed
\* institutional-id set when that set is configured.  A student without an id
\* is never matched.
C12_EveryActiveFilter ==
    [][TakesStudent =>
         LET u   == Head(stuBuf)
             sis == Strip(u.sis_user_id)
         IN  Matches <=>
               /\ u.id # 0
               /\ include_canvas_ids = {} \/ u.id \in include_canvas_ids
               /\ include_sis_ids = {} \/ (sis # <<>> /\ sis \in include_sis_ids)]_vars

C12_Witness ==
    /\ include_canvas_ids = {2}
    /\ include_sis_ids = {<<"S1">>}
    /\ user.id = 1
    /\ Strip(user.sis_user_id) = <<"S1">>
    /\ mPc = "list"
    /\ total_students = 1
    /\ matched_students = 0

\* the identity columns of a row are those of the student u
RowIsOf(row, u) ==
    /\ row.made
    /\ row.first = split_first_last(u.name, u.sortable_name)[1]
    /\ row.last = split_first_last(u.name, u.sortable_name)[2]
    /\ row.sis_user_id = Strip(u.sis_user_id)
    /\ row.email = pick_email(u)

\* C13: when the run completes, the rows are one summary per student that
\* passed the filters, in the order in which the listing returned those
\* students; they are the rows written; the matched count is their number
\* and is at most the scanned count.
C13_RowsFollowListing ==
    /\ matched_students <= total_students
    /\ matched_students = Len(passed)
    /\ mPc = "done" =>
          /\ Len(rows) = Len(passed)
          /\ \A i \in 1..Len(rows) : RowIsOf(rows[i], passed[i])
          /\ written = rows
          /\ matched_students = Len(rows)

C13_Witness ==
    /\ mPc = "done"
    /\ total_students = 3
    /\ Len(written) = 2
    /\ passed[1].id = 2 /\ passed[2].id = 1
    /\ written[1].sis_user_id = <<>>
    /\ written[2].sis_user_id = <<"S1">>

\* C14 (as claimed): when every request is answered successfully, paged_get
\* terminates.
C14_PagedGetTerminates == <>(pgPc = "done")

\* C15: when the Link header of a successful response is absent, empty or
\* malformed, paged_get follows no link: every request goes to the first URL,
\* the call ends after the items of that page have been yielded, and the only
\* errors are those of a request that failed before any page was received.
C15_MalformedLinkEndsPaging ==
    /\ pgUrl = UrlOf(1)
    /\ lastReq.url \in {<<>>, UrlOf(1)}
    /\ pgPc = "yield" => NextUrl(parse_link_header(pgLink)) = <<>>
    /\ pgPc = "done" => yielded = JsonItems(srvPages[1])
    /\ pgPc = "raised" => yielded = <<>> /\ pgData = <<>> /\ pgLink = <<>>

C15_Witness ==
    /\ pgPc = "done"
    /\ srvStyle = "noangle"
    /\ Len(srvPages) = 2
    /\ pgLink = <<"p2", ";", " ", "rel=", "\"", "next", "\"">>
    /\ Len(yielded) = 2

\* a request is sent: robust_get performs one attempt
SendsRequest == rgPc = "loop" /\ Len(statLog') = Len(statLog) + 1

\* C16: every request made before the first response is received, retries
\* included, goes to the caller's URL with the caller's params; every request
\* made after it, retries included, goes to the "next" URL of the response
\* received last and carries no params.
C16_OnlyFirstRequestHasParams ==
    [][SendsRequest =>
         IF pgLink = <<>> /\ yielded = <<>> /\ pgUrl = UrlOf(1)
         THEN lastReq' = [url |-> UrlOf(1), params |-> "params"]
         ELSE /\ lastReq'.params = "None"
              /\ lastReq'.url = NextUrl(parse_link_header(pgLink))
              /\ lastReq'.url # <<>>]_vars

C16_Witness ==
    /\ lastReq = [url |-> UrlOf(2), params |-> "None"]
    /\ statLog = <<503, 200>>
    /\ pgLink # <<>>

(***************************************************************************)
(* Properties of the upsert.                                               *)
(***************************************************************************)
\* the records of the table whose key is k
RecordsWithKey(k) == {i \in 1..Len(table) : Strip(table[i].key) = k}

\* the entries of a list that carry row r
EntriesOf(list, r) == {j \in 1..Len(list) : list[j].fields = r}

\* C17 (the key of a row or record is the value of its unique-key column with
\* the surrounding whitespace removed, as the program takes it):
\* once the rows have been classified, every row with a non-empty key
\* is in exactly one of the two lists, exactly once: in updates, with the id
\* of a record of that key, if and only if a record of the table read at the
\* start has that key, and in creates otherwise; a row with an empty key is in
\* neither list; and nothing is ever sent but the entries of the two lists.
C17_RowsClassifiedOnce ==
    /\ upPc \in {"patch", "post", "softdel", "done"} \/ (upPc = "raised" /\ sent # {}) =>
          \A n \in 1..Len(csv_rows) :
             LET r == csv_rows[n]
                 k == Strip(r.key)
                 u == EntriesOf(updates, r)
                 c == EntriesOf(creates, r)
             IN  IF k = <<>> THEN u = {} /\ c = {}
                 ELSE IF RecordsWithKey(k) # {}
                 THEN /\ Cardinality(u) = 1 /\ c = {}
                      /\ \A j \in u : \E i \in RecordsWithKey(k) : updates[j].id = table[i].id
                 ELSE u = {} /\ Cardinality(c) = 1
    /\ \A m \in sent :
          /\ m.kind = "PATCH" => \E j \in 1..Len(updates) :
                                   updates[j] = [id |-> m.id, fields |-> m.fields]
          /\ m.kind = "POST" => \E j \in 1..Len(creates) : creates[j].fields = m.fields
          /\ m.kind \in {"PATCH", "POST"} => Strip(m.fields.key) # <<>>

C17_Witness ==
    /\ upPc = "done"
    /\ Len(csv_rows) = 2
    /\ csv_rows[1].key = <<"A", " ">>
    /\ csv_rows[2].key = <<" ">>
    /\ updates = <<[id |-> <<"rec2">>, fields |-> csv_rows[1]]>>
    /\ creates = <<>>
    /\ sent = {[kind |-> "PATCH", id |-> <<"rec2">>, fields |-> csv_rows[1]]}

(***************************************************************************)
(* Properties of the assignment metrics and of the enrollment date.        *)
(***************************************************************************)
\* C18 (as claimed): after the course fetch of an enrollment row has failed,
\* no assignments or submissions request is made for that course and the two
\* metrics keep the values they had when the row was read.
C18_NoMetricsAfterCourseFailure ==
    "course" \in thisCourse.failed =>
        /\ bsPc \notin {"assign", "subs"}
        /\ <<total_assignments, completed_assignments>> = thisCourse.before

\* C19 (as claimed): after the assignments fetch or the submissions fetch of a
\* course has failed, the two metrics have the values they had before the
\* course was processed.
C19_FailedMetricsFetchAddsNothing ==
    thisCourse.failed \cap {"assignments", "submissions"} # {} =>
        <<total_assignments, completed_assignments>> = thisCourse.before

\* the datetimes that iso_parse gave for the rows read
Parsed == seenStamps \ {NoTime}

\* C20 (as claimed): no creation timestamp makes the aggregation fail; once
\* the rows have been read the enrollment date is the least of the parseable
\* creation timestamps of all of them, and is empty exactly when there is
\* none.
C20_EarliestParseable ==
    /\ "timestamps" \notin failed
    /\ Derived =>
          /\ earliest_enrollment = NoTime <=> Parsed = {}
          /\ Parsed # {} =>
                /\ earliest_enrollment \in Parsed
                /\ \A p \in Parsed : earliest_enrollment.t <= p.t
    /\ summary.made => summary.enrollment_date = earliest_enrollment

(***************************************************************************)
(* Properties of the course requests, of the warnings and of the output.   *)
(***************************************************************************)
\* C21 (as claimed): in the aggregation of one student every successful
\* get_course answer belongs to a different course id, so the course-name list
\* never has more entries than there are distinct course ids, and the summary
\* carries at most total_courses_enrolled names.
C21_CourseFetchedOncePerId ==
    /\ Len(course_names) <= Cardinality(course_ids)
    /\ summary.made => Len(summary.course_names) <= summary.total_courses

\* C22 (as claimed): in one call of robust_get the warnings and the waits are
\* equal in number, and when the call has ended, by a return or by an
\* exception, both equal the number of requests issued after the first one.
C22_WarningPerPerformedRetry ==
    /\ warns = waits
    /\ rgPc \in {"returned", "raised"} =>
          /\ warns = Len(statLog) - 1
          /\ waits = Len(statLog) - 1

\* C23: the rows are written only when the student listing is exhausted and
\* no student is being aggregated, and then they are one row per matched
\* student; until then nothing is written.  When a page request of the
\* student listing or the enrollment fetch of a matched student fails, the
\* run is aborted, takes no further step and has written nothing, whatever
\* rows it had accumulated.
C23_OutputAllOrNothing ==
    /\ mPc # "done" => written = <<>>
    /\ mPc = "done" =>
          /\ stuBuf = <<>> /\ ~stuMore
          /\ bsPc = "off"
          /\ written = rows
          /\ Len(written) = matched_students
    /\ abortCause = "students" \/ "enrollments" \in failed =>
          /\ mPc = "aborted"
          /\ written = <<>>
          /\ ~ENABLED NextAgg

C23_Witness ==
    /\ mPc = "aborted"
    /\ abortCause = "students"
    /\ Len(rows) = 1
    /\ matched_students = 1
    /\ written = <<>>

===========================================================================
